---- MODULE Spec2Model ----
(***************************************************************************)
(* Resilience layer of inflow-ai: the circuit breaker of                   *)
(* services/common/circuit_breaker.py (state machine, decorator wrapper,   *)
(* module-level registry), driven by concurrent callers and a clock.       *)
(*                                                                         *)
(* Breaker objects live in a heap (the sequence `breakers`); a caller      *)
(* holds a reference to one of them.  Every method that touches a          *)
(* breaker's fields does so inside `with self._lock`, so each method is    *)
(* two steps: taking the lock, and the body together with the release.     *)
(* The wrapped operation runs between two such methods, with the lock      *)
(* free.                                                                   *)
(***************************************************************************)
EXTENDS Integers, Sequences, FiniteSets, TLC

\* ------------------------------------------------------------------ bounds
\* failure_threshold of the breaker of Spec is drawn from 1..MaxThreshold
MaxThreshold == 2
\* recovery_timeout of the breaker of Spec is drawn from 0..MaxTimeout
MaxTimeout == 2
\* half_open_max_calls of the breaker of Spec is drawn from 1..MaxHalfOpen
MaxHalfOpen == 2
\* the clock runs from 0 to MaxTime
MaxTime == 2
\* no breaker's _failure_count is driven beyond MaxFailures
MaxFailures == 3
\* the heap holds at most MaxBreakers breaker objects
MaxBreakers == 6

\* The concurrent callers.
Threads == {"t1", "t2"}
\* What the wrapped operation may return, and what it may raise: exceptions
\* derived from Exception, the ones `except Exception` on line 106 catches.
Results == {"r1", "r2"}
Errors == {"e1", "e2"}

\* ------------------------------------------------------------- the breaker
\* CircuitState
CLOSED == "closed"
OPEN == "open"
HALF_OPEN == "half_open"

\* Optional[float]: None is the empty tuple, a time t is <<t>>.
None == << >>
\* threading.Lock(): free, or held by a thread
Unlocked == "unlocked"

\* Defaults of CircuitBreaker.__init__
DefaultFailureThreshold == 5
DefaultRecoveryTimeout == 30
DefaultHalfOpenMaxCalls == 3

\* CircuitBreaker.__init__
CircuitBreaker(name, failure_threshold, recovery_timeout, half_open_max_calls) ==
    [ name |-> name,
      failure_threshold |-> failure_threshold,
      recovery_timeout |-> recovery_timeout,
      half_open_max_calls |-> half_open_max_calls,
      _state |-> CLOSED,
      _failure_count |-> 0,
      _last_failure_time |-> None,
      _half_open_calls |-> 0,
      _lock |-> Unlocked ]

\* _should_attempt_reset that compares with > on line 64
_should_attempt_reset_late(b, t) ==
    IF b._last_failure_time = None
    THEN FALSE
    ELSE t - b._last_failure_time[1] > b.recovery_timeout

\* _should_attempt_reset that ignores the recovery timeout
_should_attempt_reset_at_once(b, t) ==
    b._last_failure_time # None

\* CircuitBreaker._should_attempt_reset, at time.time() = t
_should_attempt_reset(b, t) ==
    IF b._last_failure_time = None
    THEN FALSE
    ELSE t - b._last_failure_time[1] >= b.recovery_timeout

\* A `state` property that closes the breaker once the timeout has elapsed
state_closes_after_timeout(b, t) ==
    IF b._state = OPEN /\ _should_attempt_reset(b, t)
    THEN [b EXCEPT !._state = CLOSED, !._failure_count = 0]
    ELSE b

\* A `state` property that clears _failure_count when it half-opens the breaker
state_resets_count(b, t) ==
    IF b._state = OPEN /\ _should_attempt_reset(b, t)
    THEN [b EXCEPT !._state = HALF_OPEN, !._half_open_calls = 0, !._failure_count = 0]
    ELSE b

\* A `state` property that only reads _state
state_read_only(b, t) == b

\* A `state` property that starts a new probing round whenever the timeout
\* has elapsed, in HalfOpen too
state_rearms(b, t) ==
    IF b._state # CLOSED /\ _should_attempt_reset(b, t)
    THEN [b EXCEPT !._state = HALF_OPEN, !._half_open_calls = 0]
    ELSE b

\* The body of the `state` property (inside the lock), at time t: the breaker
\* it leaves.  The value the property returns is the _state of that breaker.
state(b, t) ==
    IF b._state = OPEN /\ _should_attempt_reset(b, t)
    THEN [b EXCEPT !._state = HALF_OPEN, !._half_open_calls = 0]
    ELSE b

\* record_success that clears _failure_count in every state
record_success_resets_always(b) ==
    IF b._state = HALF_OPEN
    THEN LET n == b._half_open_calls + 1
         IN  IF n >= b.half_open_max_calls
             THEN [b EXCEPT !._half_open_calls = n,
                            !._state = CLOSED,
                            !._failure_count = 0]
             ELSE [b EXCEPT !._half_open_calls = n, !._failure_count = 0]
    ELSE [b EXCEPT !._failure_count = 0]

\* record_success that clears _half_open_calls when it closes the breaker
record_success_clears_probes(b) ==
    IF b._state = HALF_OPEN
    THEN LET n == b._half_open_calls + 1
         IN  IF n >= b.half_open_max_calls
             THEN [b EXCEPT !._half_open_calls = 0,
                            !._state = CLOSED,
                            !._failure_count = 0]
             ELSE [b EXCEPT !._half_open_calls = n]
    ELSE IF b._state = CLOSED
         THEN [b EXCEPT !._failure_count = 0]
         ELSE b

\* record_success that closes an Open breaker
record_success_closes_open(b) ==
    IF b._state = HALF_OPEN
    THEN LET n == b._half_open_calls + 1
         IN  IF n >= b.half_open_max_calls
             THEN [b EXCEPT !._half_open_calls = n,
                            !._state = CLOSED,
                            !._failure_count = 0]
             ELSE [b EXCEPT !._half_open_calls = n]
    ELSE [b EXCEPT !._state = CLOSED, !._failure_count = 0]

\* record_success that forgets the reset of line 76
record_success_keeps_count(b) ==
    IF b._state = HALF_OPEN
    THEN LET n == b._half_open_calls + 1
         IN  IF n >= b.half_open_max_calls
             THEN [b EXCEPT !._half_open_calls = n,
                            !._state = CLOSED,
                            !._failure_count = 0]
             ELSE [b EXCEPT !._half_open_calls = n]
    ELSE b

\* record_success that compares with > on line 71
record_success_one_more(b) ==
    IF b._state = HALF_OPEN
    THEN LET n == b._half_open_calls + 1
         IN  IF n > b.half_open_max_calls
             THEN [b EXCEPT !._half_open_calls = n,
                            !._state = CLOSED,
                            !._failure_count = 0]
             ELSE [b EXCEPT !._half_open_calls = n]
    ELSE IF b._state = CLOSED
         THEN [b EXCEPT !._failure_count = 0]
         ELSE b

\* The body of record_success (inside the lock).
record_success(b) ==
    IF b._state = HALF_OPEN
    THEN LET n == b._half_open_calls + 1
         IN  IF n >= b.half_open_max_calls
             THEN [b EXCEPT !._half_open_calls = n,
                            !._state = CLOSED,
                            !._failure_count = 0]
             ELSE [b EXCEPT !._half_open_calls = n]
    ELSE IF b._state = CLOSED
         THEN [b EXCEPT !._failure_count = 0]
         ELSE b

\* record_failure that notes the time only when it opens the breaker
record_failure_time_when_opening(b, t) ==
    LET c == [b EXCEPT !._failure_count = @ + 1]
    IN  IF c._state = HALF_OPEN
        THEN [c EXCEPT !._state = OPEN, !._last_failure_time = <<t>>]
        ELSE IF c._failure_count >= c.failure_threshold
             THEN [c EXCEPT !._state = OPEN, !._last_failure_time = <<t>>]
             ELSE c

\* record_failure without line 82
record_failure_no_time(b, t) ==
    LET c == [b EXCEPT !._failure_count = @ + 1]
    IN  IF c._state = HALF_OPEN
        THEN [c EXCEPT !._state = OPEN]
        ELSE IF c._failure_count >= c.failure_threshold
             THEN [c EXCEPT !._state = OPEN]
             ELSE c

\* record_failure that leaves the recovery window of an Open breaker alone
record_failure_keeps_window(b, t) ==
    IF b._state = OPEN
    THEN [b EXCEPT !._failure_count = @ + 1]
    ELSE LET c == [b EXCEPT !._failure_count = @ + 1,
                            !._last_failure_time = <<t>>]
         IN  IF c._state = HALF_OPEN
             THEN [c EXCEPT !._state = OPEN]
             ELSE IF c._failure_count >= c.failure_threshold
                  THEN [c EXCEPT !._state = OPEN]
                  ELSE c

\* record_failure that compares with > on line 87
record_failure_off_by_one(b, t) ==
    LET c == [b EXCEPT !._failure_count = @ + 1,
                       !._last_failure_time = <<t>>]
    IN  IF c._state = HALF_OPEN
        THEN [c EXCEPT !._state = OPEN]
        ELSE IF c._failure_count > c.failure_threshold
             THEN [c EXCEPT !._state = OPEN]
             ELSE c

\* record_failure that stamps the time only when it opens a Closed breaker
record_failure_stale_time(b, t) ==
    LET c == [b EXCEPT !._failure_count = @ + 1]
    IN  IF c._state = HALF_OPEN
        THEN [c EXCEPT !._state = OPEN]
        ELSE IF c._failure_count >= c.failure_threshold
             THEN [c EXCEPT !._state = OPEN, !._last_failure_time = <<t>>]
             ELSE [c EXCEPT !._last_failure_time = <<t>>]

\* The body of record_failure (inside the lock), at time t.
record_failure(b, t) ==
    LET c == [b EXCEPT !._failure_count = @ + 1,
                       !._last_failure_time = <<t>>]
    IN  IF c._state = HALF_OPEN
        THEN [c EXCEPT !._state = OPEN]
        ELSE IF c._failure_count >= c.failure_threshold
             THEN [c EXCEPT !._state = OPEN]
             ELSE c

\* can_execute that admits every call
can_execute_always(s) == TRUE

\* can_execute that admits calls only while the breaker is Closed
can_execute_closed_only(s) == s = CLOSED

\* can_execute, given the value the `state` property returned
can_execute(s) == s # OPEN

\* A wrapper whose can_execute() test sits inside the try block: the
\* CircuitOpenError it raises is caught by line 106 and recorded as a failure
on_reject_records_failure(b, t) ==
    [b EXCEPT !._failure_count = @ + 1, !._last_failure_time = <<t>>]

\* What the wrapper does to the breaker when can_execute() is false: it
\* raises CircuitOpenError before the try block, so nothing is recorded.
on_reject(b, t) == b

\* The exception the wrapper raises on rejection
CircuitOpenError == "CircuitOpenError"

\* How a call ends: nothing yet, a value returned, an exception raised
NoOutcome == [kind |-> "none", val |-> ""]
Returned(v) == [kind |-> "return", val |-> v]
Raised(e) == [kind |-> "raise", val |-> e]

\* line 105: `return result`
wrapper_return(result) == Returned(result)

\* A wrapper that raises CircuitOpenError in place of the caught exception
wrapper_reraise_as_circuit_open(e) == Raised(CircuitOpenError)

\* line 108: the bare `raise` re-raises the exception caught on line 106
wrapper_reraise(e) == Raised(e)

\* ------------------------------------------------------------ the registry
\* CIRCUIT_BREAKERS: the breakers created at import time, in heap order
PreconfiguredBreakers ==
    << CircuitBreaker("feature_service", 5, 30, DefaultHalfOpenMaxCalls),
       CircuitBreaker("inference_service", 3, 60, DefaultHalfOpenMaxCalls),
       CircuitBreaker("decision_engine", 5, 30, DefaultHalfOpenMaxCalls),
       CircuitBreaker("llm_service", 2, 120, DefaultHalfOpenMaxCalls) >>

\* The keys of CIRCUIT_BREAKERS, each with the heap index of its breaker
CIRCUIT_BREAKERS ==
    [n \in {PreconfiguredBreakers[i].name : i \in 1..Len(PreconfiguredBreakers)} |->
        CHOOSE i \in 1..Len(PreconfiguredBreakers) : PreconfiguredBreakers[i].name = n]

\* The names looked up: one preconfigured, one the table does not hold
LookupNames == {"llm_service", "studio_service"}

\* get_circuit(name) on the heap `heap`: the heap it leaves and the breaker it
\* returns.  dict.get's default, CircuitBreaker(name=name), is built on every
\* call; when the name is a key it is dropped at once, and it is never stored
\* in CIRCUIT_BREAKERS.
get_circuit(name, heap) ==
    IF name \in DOMAIN CIRCUIT_BREAKERS
    THEN [heap |-> heap, result |-> CIRCUIT_BREAKERS[name]]
    ELSE [heap |-> Append(heap, CircuitBreaker(name, DefaultFailureThreshold,
                                               DefaultRecoveryTimeout,
                                               DefaultHalfOpenMaxCalls)),
          result |-> Len(heap) + 1]

\* ------------------------------------------------ the orchestrator's values
\* services/orchestrator/main.py.  A Python value with its type: the risk slot
\* of a response holds a dict or a str, the timing slot a dict or None.
Dict(d) == [type |-> "dict", val |-> d]
Str(s) == [type |-> "str", val |-> s]
NoneValue == [type |-> "NoneType", val |-> None]

\* The requests served at once, and request.idea_text as its words: the mock
\* clients look for a marker in it.
Requests == {"q1", "q2"}
IdeaTexts == { << "simple", "idea" >>, << "fail_risk" >>, << "fail_viability" >>,
               << "fail_viability", "fail_risk" >> }
\* `marker in idea_text`
Contains(idea_text, marker) == \E k \in 1..Len(idea_text) : idea_text[k] = marker

\* ViabilityClient.check
ViabilityClient_check(idea_text) ==
    IF Contains(idea_text, "fail_viability")
    THEN Raised("Viability Service unavailable")
    ELSE Returned(Dict([score |-> 85, status |-> "viable"]))

\* RiskClient.scan
RiskClient_scan(idea_text) ==
    IF Contains(idea_text, "fail_risk")
    THEN Raised("Risk Service timeout")
    ELSE Returned(Dict([level |-> "low", flags |-> << >>]))

\* TimingClient.get_best_time
TimingClient_get_best_time ==
    Returned(Dict([best_post_time |-> "18:00 UTC", day |-> "Wednesday"]))
\* What a timing client that fails raises.  The mock never does; lines 80-84
\* of analyze_idea are written for the client that takes its place.
TimingErrors == {"Timing Service unavailable"}

HTTPException(status_code, detail) ==
    [type |-> "HTTPException", status_code |-> status_code, detail |-> detail]

AnalysisResponse_no_timing(viability, risk, timing) ==
    [type |-> "AnalysisResponse", viability |-> viability, risk |-> risk,
     timing |-> NoneValue]

AnalysisResponse(viability, risk, timing) ==
    [type |-> "AnalysisResponse", viability |-> viability, risk |-> risk,
     timing |-> timing]

viability_failed_partial(e) ==
    Returned(AnalysisResponse(Str("UNKNOWN"), NoneValue, NoneValue))

\* lines 63-66: the except branch of the Viability call
viability_failed(e) ==
    Raised(HTTPException(500, "Critical dependency 'Viability' failed."))

risk_failed_none(e) == NoneValue

\* lines 71-74: the except branch of the Risk call
risk_failed(e) == Str("UNKNOWN")

\* lines 82-84: the except branch of the Timing call
timing_failed(e) == NoneValue

\* The HTTP status FastAPI answers with: 200 for a returned model, the
\* HTTPException's own status_code otherwise
status_code(reply) ==
    IF reply.kind = "return" THEN 200 ELSE reply.val.status_code

\* ------------------------------------------------------------------ state
VARIABLES
    now,        \* time.time()
    breakers,   \* the heap: the breaker objects created so far
    hist,       \* per breaker, history only: when it last became Open, and the
                \* number of record_failure() applied since the last record_success()
    returned,   \* history only: per looked-up name, the breakers get_circuit returned
    ref,        \* per thread: the breaker (heap index) its calls go to, 0 for none
    pc,         \* per thread: where it is
    seen,       \* per thread, for the call in progress: the value self.state returned
                \* inside can_execute() and, while func runs, the breaker's _state
                \* at the moment func was entered
    opres,      \* per thread: what the wrapped operation returned or raised
    calls,      \* per thread: invocations of the wrapped operation by the current call
    recorded,   \* per thread: the record_* methods the current call has applied
    outcome,    \* per thread: how its last finished call ended
    completed,  \* history only: the threads whose wrapped operation has ended and
                \* whose outcome is not yet recorded, in the order the operations ended
    idea_text,  \* per request: request.idea_text
    opc,        \* per request: where analyze_idea is
    viability_result,   \* per request: the local of that name
    risk_result,        \* per request: the local of that name
    timing_result,      \* per request: the local of that name
    log,        \* history only, per request: the client calls made, each with
                \* what the client answered
    reply       \* per request: what analyze_idea returned or raised

orch_vars == << idea_text, opc, viability_result, risk_result, timing_result, log, reply >>
vars == << now, breakers, hist, returned, ref, pc, seen, opres, calls, recorded, outcome,
           completed, orch_vars >>
thread_vars == << ref, pc, seen, opres, calls, recorded, outcome >>

\* No request has reached the orchestrator
NoRequests ==
    /\ idea_text = [q \in Requests |-> << >>]
    /\ opc = [q \in Requests |-> "idle"]
    /\ viability_result = [q \in Requests |-> NoneValue]
    /\ risk_result = [q \in Requests |-> NoneValue]
    /\ timing_result = [q \in Requests |-> NoneValue]
    /\ log = [q \in Requests |-> << >>]
    /\ reply = [q \in Requests |-> NoOutcome]

NoHist == [opened_at |-> None, streak |-> 0]

\* The history of a breaker after method `op` took it from `old` to `new` at time t.
HistAfter(h, old, new, op, t) ==
    [ opened_at |-> IF new._state = OPEN /\ old._state # OPEN THEN <<t>> ELSE h.opened_at,
      streak |-> IF op = "record_failure" THEN h.streak + 1
                 ELSE IF op = "record_success" THEN 0
                 ELSE h.streak ]

\* A `with` block that does not wait for the lock to be free
Acquire_unguarded(i, t) ==
    breakers' = [breakers EXCEPT ![i]._lock = t]

\* `with self._lock:` entered by thread t on breaker i
Acquire(i, t) ==
    /\ breakers[i]._lock = Unlocked
    /\ breakers' = [breakers EXCEPT ![i]._lock = t]

\* A breaker whose _failure_count is an attribute of the class, shared by
\* every breaker object
Release_shared_count(i, new, op) ==
    /\ breakers' = [j \in 1..Len(breakers) |->
                        IF j = i THEN [new EXCEPT !._lock = Unlocked]
                        ELSE [breakers[j] EXCEPT !._failure_count = new._failure_count]]
    /\ hist' = [hist EXCEPT ![i] = HistAfter(@, breakers[i], new, op, now)]

\* Leaving `with self._lock:` with the fields as method `op` left them
Release(i, new, op) ==
    /\ breakers' = [breakers EXCEPT ![i] = [new EXCEPT !._lock = Unlocked]]
    /\ hist' = [hist EXCEPT ![i] = HistAfter(@, breakers[i], new, op, now)]

\* Failures already recorded on breaker i plus those about to be
PendingFailures(i) ==
    Cardinality({u \in Threads : ref[u] = i /\ pc[u] \in {"rf_lock", "rf_body"}})

MayFail(i) == breakers[i]._failure_count + PendingFailures(i) < MaxFailures

\* ---------------------------------------------------------------- wrapper
\* wrapper(): line 99 calls can_execute(), whose read of self.state takes the lock
Invoke(t) ==
    /\ pc[t] = "idle"
    /\ ref[t] # 0
    /\ Acquire(ref[t], t)
    /\ pc' = [pc EXCEPT ![t] = "ce_body"]
    /\ calls' = [calls EXCEPT ![t] = 0]
    /\ recorded' = [recorded EXCEPT ![t] = << >>]
    /\ outcome' = [outcome EXCEPT ![t] = NoOutcome]
    /\ seen' = [seen EXCEPT ![t] = << >>]
    /\ UNCHANGED << now, hist, returned, ref, opres >>
    /\ UNCHANGED << completed, orch_vars >>

\* A wrapper that keeps the lock from the admission check until the outcome
\* is recorded: the admitted caller leaves the check still holding it
CanExecute_holding_lock(t) ==
    /\ pc[t] = "ce_body"
    /\ LET i == ref[t]
           b == state(breakers[i], now)
       IN  IF can_execute(b._state)
           THEN /\ breakers' = [breakers EXCEPT ![i] = b]
                /\ hist' = [hist EXCEPT ![i] = HistAfter(@, breakers[i], b, "state", now)]
                /\ seen' = [seen EXCEPT ![t] = << b._state >>]
                /\ pc' = [pc EXCEPT ![t] = "admitted"]
                /\ UNCHANGED outcome
           ELSE /\ Release(i, on_reject(b, now), "state")
                /\ seen' = [seen EXCEPT ![t] = << b._state >>]
                /\ pc' = [pc EXCEPT ![t] = "idle"]
                /\ outcome' = [outcome EXCEPT ![t] = Raised(CircuitOpenError)]
    /\ UNCHANGED << now, returned, ref, opres, calls, recorded >>
    /\ UNCHANGED << completed, orch_vars >>

\* The state property's body inside can_execute(), then lines 99-100: the call
\* is admitted, or rejected with CircuitOpenError.
CanExecute(t) ==
    /\ pc[t] = "ce_body"
    /\ LET i == ref[t]
           b == state(breakers[i], now)
       IN  IF can_execute(b._state)
           THEN /\ Release(i, b, "state")
                /\ seen' = [seen EXCEPT ![t] = << b._state >>]
                /\ pc' = [pc EXCEPT ![t] = "admitted"]
                /\ UNCHANGED outcome
           ELSE /\ Release(i, on_reject(b, now), "state")
                /\ seen' = [seen EXCEPT ![t] = << b._state >>]
                /\ pc' = [pc EXCEPT ![t] = "idle"]
                /\ outcome' = [outcome EXCEPT ![t] = Raised(CircuitOpenError)]
    /\ UNCHANGED << now, returned, ref, opres, calls, recorded >>
    /\ UNCHANGED << completed, orch_vars >>

\* line 103: func(*args, **kwargs) is entered
StartOperation(t) ==
    /\ pc[t] = "admitted"
    /\ pc' = [pc EXCEPT ![t] = "running"]
    /\ calls' = [calls EXCEPT ![t] = @ + 1]
    /\ seen' = [seen EXCEPT ![t] = Append(@, breakers[ref[t]]._state)]
    /\ UNCHANGED << now, breakers, hist, returned, ref, opres, recorded, outcome >>
    /\ UNCHANGED << completed, orch_vars >>

\* line 103: func returns r; line 104 is next
OperationReturns(t, r) ==
    /\ pc[t] = "running"
    /\ pc' = [pc EXCEPT ![t] = "rs_lock"]
    /\ opres' = [opres EXCEPT ![t] = r]
    /\ seen' = [seen EXCEPT ![t] = << @[1] >>]
    /\ UNCHANGED << now, breakers, hist, returned, ref, calls, recorded, outcome >>
    /\ completed' = Append(completed, t)
    /\ UNCHANGED orch_vars

\* line 103: func raises e; line 107 is next
OperationRaises(t, e) ==
    /\ pc[t] = "running"
    /\ MayFail(ref[t])
    /\ pc' = [pc EXCEPT ![t] = "rf_lock"]
    /\ opres' = [opres EXCEPT ![t] = e]
    /\ seen' = [seen EXCEPT ![t] = << @[1] >>]
    /\ UNCHANGED << now, breakers, hist, returned, ref, calls, recorded, outcome >>
    /\ completed' = Append(completed, t)
    /\ UNCHANGED orch_vars

\* line 104: record_success() takes the lock
SuccessLock(t) ==
    /\ pc[t] = "rs_lock"
    /\ Acquire(ref[t], t)
    /\ pc' = [pc EXCEPT ![t] = "rs_body"]
    /\ UNCHANGED << now, hist, returned, ref, seen, opres, calls, recorded, outcome >>
    /\ UNCHANGED << completed, orch_vars >>

\* A wrapper that drops a success whose call was admitted in another state
\* than the breaker is in when the success arrives
SuccessReturn_ignoring_stale(t) ==
    /\ pc[t] = "rs_body"
    /\ Release(ref[t],
               IF seen[t][1] = breakers[ref[t]]._state
               THEN record_success(breakers[ref[t]]) ELSE breakers[ref[t]],
               "record_success")
    /\ recorded' = [recorded EXCEPT ![t] = Append(@, "record_success")]
    /\ outcome' = [outcome EXCEPT ![t] = wrapper_return(opres[t])]
    /\ opres' = [opres EXCEPT ![t] = ""]
    /\ seen' = [seen EXCEPT ![t] = << >>]
    /\ pc' = [pc EXCEPT ![t] = "idle"]
    /\ UNCHANGED << now, returned, ref, calls >>
    /\ completed' = SelectSeq(completed, LAMBDA u : u # t)
    /\ UNCHANGED orch_vars

\* lines 104-105: record_success()'s body, then `return result`
SuccessReturn(t) ==
    /\ pc[t] = "rs_body"
    /\ Release(ref[t], record_success(breakers[ref[t]]), "record_success")
    /\ recorded' = [recorded EXCEPT ![t] = Append(@, "record_success")]
    /\ outcome' = [outcome EXCEPT ![t] = wrapper_return(opres[t])]
    /\ opres' = [opres EXCEPT ![t] = ""]
    /\ seen' = [seen EXCEPT ![t] = << >>]
    /\ pc' = [pc EXCEPT ![t] = "idle"]
    /\ UNCHANGED << now, returned, ref, calls >>
    /\ completed' = SelectSeq(completed, LAMBDA u : u # t)
    /\ UNCHANGED orch_vars

\* line 107: record_failure() takes the lock
FailureLock(t) ==
    /\ pc[t] = "rf_lock"
    /\ Acquire(ref[t], t)
    /\ pc' = [pc EXCEPT ![t] = "rf_body"]
    /\ UNCHANGED << now, hist, returned, ref, seen, opres, calls, recorded, outcome >>
    /\ UNCHANGED << completed, orch_vars >>

\* lines 107-108: record_failure()'s body, then `raise`
FailureReraise(t) ==
    /\ pc[t] = "rf_body"
    /\ Release(ref[t], record_failure(breakers[ref[t]], now), "record_failure")
    /\ recorded' = [recorded EXCEPT ![t] = Append(@, "record_failure")]
    /\ outcome' = [outcome EXCEPT ![t] = wrapper_reraise(opres[t])]
    /\ opres' = [opres EXCEPT ![t] = ""]
    /\ seen' = [seen EXCEPT ![t] = << >>]
    /\ pc' = [pc EXCEPT ![t] = "idle"]
    /\ UNCHANGED << now, returned, ref, calls >>
    /\ completed' = SelectSeq(completed, LAMBDA u : u # t)
    /\ UNCHANGED orch_vars

\* ------------------------------------------------- the methods called directly
\* breaker.state read by a caller (a health endpoint): the lock is taken
StateLock(t) ==
    /\ pc[t] = "idle"
    /\ ref[t] # 0
    /\ Acquire(ref[t], t)
    /\ pc' = [pc EXCEPT ![t] = "st_body"]
    /\ calls' = [calls EXCEPT ![t] = 0]
    /\ recorded' = [recorded EXCEPT ![t] = << >>]
    /\ outcome' = [outcome EXCEPT ![t] = NoOutcome]
    /\ UNCHANGED << now, hist, returned, ref, seen, opres >>
    /\ UNCHANGED << completed, orch_vars >>

\* the state property's body, and its return
StateReturn(t) ==
    /\ pc[t] = "st_body"
    /\ LET b == state(breakers[ref[t]], now)
       IN  /\ Release(ref[t], b, "state")
           /\ outcome' = [outcome EXCEPT ![t] = Returned(b._state)]
    /\ pc' = [pc EXCEPT ![t] = "idle"]
    /\ UNCHANGED << now, returned, ref, seen, opres, calls, recorded >>
    /\ UNCHANGED << completed, orch_vars >>

\* time passes
Tick ==
    /\ now < MaxTime
    /\ now' = now + 1
    /\ UNCHANGED << breakers, hist, returned, thread_vars >>
    /\ UNCHANGED << completed, orch_vars >>

\* ------------------------------------------- one breaker, concurrent callers
\* A breaker constructed with any configuration within the bounds, shared by
\* all threads.
Init ==
    /\ now = 0
    /\ \E T \in 1..MaxThreshold, R \in 0..MaxTimeout, M \in 1..MaxHalfOpen :
          breakers = << CircuitBreaker("dep", T, R, M) >>
    /\ hist = << NoHist >>
    /\ returned = [n \in LookupNames |-> {}]
    /\ ref = [t \in Threads |-> 1]
    /\ pc = [t \in Threads |-> "idle"]
    /\ seen = [t \in Threads |-> << >>]
    /\ opres = [t \in Threads |-> ""]
    /\ calls = [t \in Threads |-> 0]
    /\ recorded = [t \in Threads |-> << >>]
    /\ outcome = [t \in Threads |-> NoOutcome]
    /\ completed = << >>
    /\ NoRequests

Next ==
    \/ \E t \in Threads : Invoke(t)
    \/ \E t \in Threads : CanExecute(t)
    \/ \E t \in Threads : StartOperation(t)
    \/ \E t \in Threads, r \in Results : OperationReturns(t, r)
    \/ \E t \in Threads, e \in Errors : OperationRaises(t, e)
    \/ \E t \in Threads : SuccessLock(t)
    \/ \E t \in Threads : SuccessReturn(t)
    \/ \E t \in Threads : FailureLock(t)
    \/ \E t \in Threads : FailureReraise(t)
    \/ \E t \in Threads : StateLock(t)
    \/ \E t \in Threads : StateReturn(t)
    \/ Tick

Spec == Init /\ [][Next]_vars

\* ------------------------------------- the registry, concurrent callers
\* breaker = get_circuit(name), by a thread between two calls
GetCircuit(t, name) ==
    /\ pc[t] = "idle"
    /\ LET got == get_circuit(name, breakers)
       IN  /\ Len(got.heap) <= MaxBreakers
           /\ breakers' = got.heap
           /\ hist' = IF Len(got.heap) > Len(breakers) THEN Append(hist, NoHist) ELSE hist
           /\ ref' = [ref EXCEPT ![t] = got.result]
           /\ returned' = [returned EXCEPT ![name] = @ \cup {got.result}]
    /\ UNCHANGED << now, pc, seen, opres, calls, recorded, outcome >>
    /\ UNCHANGED << completed, orch_vars >>

\* The module as imported: CIRCUIT_BREAKERS holds its four breakers and no
\* thread has looked one up yet.  The clock stands still here: what a lookup
\* returns does not depend on it, and the preconfigured timeouts (30 s and
\* more) lie beyond MaxTime.
InitRegistry ==
    /\ now = 0
    /\ breakers = PreconfiguredBreakers
    /\ hist = [i \in 1..Len(PreconfiguredBreakers) |-> NoHist]
    /\ returned = [n \in LookupNames |-> {}]
    /\ ref = [t \in Threads |-> 0]
    /\ pc = [t \in Threads |-> "idle"]
    /\ seen = [t \in Threads |-> << >>]
    /\ opres = [t \in Threads |-> ""]
    /\ calls = [t \in Threads |-> 0]
    /\ recorded = [t \in Threads |-> << >>]
    /\ outcome = [t \in Threads |-> NoOutcome]
    /\ completed = << >>
    /\ NoRequests

NextRegistry ==
    \/ \E t \in Threads, n \in LookupNames : GetCircuit(t, n)
    \/ \E t \in Threads : Invoke(t)
    \/ \E t \in Threads : CanExecute(t)
    \/ \E t \in Threads : StartOperation(t)
    \/ \E t \in Threads, r \in Results : OperationReturns(t, r)
    \/ \E t \in Threads, e \in Errors : OperationRaises(t, e)
    \/ \E t \in Threads : SuccessLock(t)
    \/ \E t \in Threads : SuccessReturn(t)
    \/ \E t \in Threads : FailureLock(t)
    \/ \E t \in Threads : FailureReraise(t)

SpecRegistry == InitRegistry /\ [][NextRegistry]_vars

\* --------------------------------------- the orchestrator, concurrent requests
\* analyze_idea is a coroutine: it gives way at each `await`, so the requests
\* being served interleave between a client call's start and its answer.
breaker_vars == << now, breakers, hist, returned, thread_vars, completed >>

\* The call to client `dep` begins
CallStarts(q, dep) == log' = [log EXCEPT ![q] = Append(@, [dep |-> dep, out |-> NoOutcome])]
\* The call in progress ends with `out`
CallEnds(q, out) == log' = [log EXCEPT ![q][Len(log[q])].out = out]

\* POST /analyze-idea arrives; line 58
Receive(q, text) ==
    /\ opc[q] = "idle"
    /\ idea_text' = [idea_text EXCEPT ![q] = text]
    /\ opc' = [opc EXCEPT ![q] = "call_viability"]
    /\ viability_result' = [viability_result EXCEPT ![q] = NoneValue]
    /\ risk_result' = [risk_result EXCEPT ![q] = NoneValue]
    /\ timing_result' = [timing_result EXCEPT ![q] = NoneValue]
    /\ log' = [log EXCEPT ![q] = << >>]
    /\ reply' = [reply EXCEPT ![q] = NoOutcome]
    /\ UNCHANGED breaker_vars

\* line 62: viability_client.check(idea_text) is awaited
ViabilityStarts(q) ==
    /\ opc[q] = "call_viability"
    /\ opc' = [opc EXCEPT ![q] = "in_viability"]
    /\ CallStarts(q, "viability")
    /\ UNCHANGED << idea_text, viability_result, risk_result, timing_result, reply >>
    /\ UNCHANGED breaker_vars

\* line 62: the call returns, and viability_result is bound
ViabilityReturns(q) ==
    /\ opc[q] = "in_viability"
    /\ LET out == ViabilityClient_check(idea_text[q])
       IN  /\ out.kind = "return"
           /\ viability_result' = [viability_result EXCEPT ![q] = out.val]
           /\ CallEnds(q, out)
    /\ opc' = [opc EXCEPT ![q] = "call_risk"]
    /\ UNCHANGED << idea_text, risk_result, timing_result, reply >>
    /\ UNCHANGED breaker_vars

\* An analyze_idea that treats Viability as it treats Risk: the failure is
\* noted and the Risk call comes next
ViabilityRaises_goes_on(q) ==
    /\ opc[q] = "in_viability"
    /\ LET out == ViabilityClient_check(idea_text[q])
       IN  /\ out.kind = "raise"
           /\ viability_result' = [viability_result EXCEPT ![q] = Str("UNKNOWN")]
           /\ CallEnds(q, out)
    /\ opc' = [opc EXCEPT ![q] = "call_risk"]
    /\ UNCHANGED << idea_text, risk_result, timing_result, reply >>
    /\ UNCHANGED breaker_vars

\* lines 63-66: the call raises, and analyze_idea raises HTTPException
ViabilityRaises(q) ==
    /\ opc[q] = "in_viability"
    /\ LET out == ViabilityClient_check(idea_text[q])
       IN  /\ out.kind = "raise"
           /\ reply' = [reply EXCEPT ![q] = viability_failed(out.val)]
           /\ CallEnds(q, out)
    /\ opc' = [opc EXCEPT ![q] = "idle"]
    /\ UNCHANGED << idea_text, viability_result, risk_result, timing_result >>
    /\ UNCHANGED breaker_vars

\* line 70: risk_client.scan(idea_text) is awaited
RiskStarts(q) ==
    /\ opc[q] = "call_risk"
    /\ opc' = [opc EXCEPT ![q] = "in_risk"]
    /\ CallStarts(q, "risk")
    /\ UNCHANGED << idea_text, viability_result, risk_result, timing_result, reply >>
    /\ UNCHANGED breaker_vars

\* line 70: the call returns, and risk_result is bound
RiskReturns(q) ==
    /\ opc[q] = "in_risk"
    /\ LET out == RiskClient_scan(idea_text[q])
       IN  /\ out.kind = "return"
           /\ risk_result' = [risk_result EXCEPT ![q] = out.val]
           /\ CallEnds(q, out)
    /\ opc' = [opc EXCEPT ![q] = "call_timing"]
    /\ UNCHANGED << idea_text, viability_result, timing_result, reply >>
    /\ UNCHANGED breaker_vars

\* lines 71-74: the call raises
RiskRaises(q) ==
    /\ opc[q] = "in_risk"
    /\ LET out == RiskClient_scan(idea_text[q])
       IN  /\ out.kind = "raise"
           /\ risk_result' = [risk_result EXCEPT ![q] = risk_failed(out.val)]
           /\ CallEnds(q, out)
    /\ opc' = [opc EXCEPT ![q] = "call_timing"]
    /\ UNCHANGED << idea_text, viability_result, timing_result, reply >>
    /\ UNCHANGED breaker_vars

\* line 81: timing_client.get_best_time() is awaited
TimingStarts(q) ==
    /\ opc[q] = "call_timing"
    /\ opc' = [opc EXCEPT ![q] = "in_timing"]
    /\ CallStarts(q, "timing")
    /\ UNCHANGED << idea_text, viability_result, risk_result, timing_result, reply >>
    /\ UNCHANGED breaker_vars

\* line 81: the call returns, and timing_result is bound
TimingReturns(q) ==
    /\ opc[q] = "in_timing"
    /\ LET out == TimingClient_get_best_time
       IN  /\ timing_result' = [timing_result EXCEPT ![q] = out.val]
           /\ CallEnds(q, out)
    /\ opc' = [opc EXCEPT ![q] = "respond"]
    /\ UNCHANGED << idea_text, viability_result, risk_result, reply >>
    /\ UNCHANGED breaker_vars

\* lines 82-84: the call raises e
TimingRaises(q, e) ==
    /\ opc[q] = "in_timing"
    /\ timing_result' = [timing_result EXCEPT ![q] = timing_failed(e)]
    /\ CallEnds(q, Raised(e))
    /\ opc' = [opc EXCEPT ![q] = "respond"]
    /\ UNCHANGED << idea_text, viability_result, risk_result, reply >>
    /\ UNCHANGED breaker_vars

\* lines 86-90: the response is built and returned
Respond(q) ==
    /\ opc[q] = "respond"
    /\ reply' = [reply EXCEPT ![q] =
                    Returned(AnalysisResponse(viability_result[q], risk_result[q],
                                              timing_result[q]))]
    /\ opc' = [opc EXCEPT ![q] = "idle"]
    /\ UNCHANGED << idea_text, viability_result, risk_result, timing_result, log >>
    /\ UNCHANGED breaker_vars

\* The service as started: the breakers of the module as imported, no request yet
InitOrchestrator ==
    /\ now = 0
    /\ breakers = PreconfiguredBreakers
    /\ hist = [i \in 1..Len(PreconfiguredBreakers) |-> NoHist]
    /\ returned = [n \in LookupNames |-> {}]
    /\ ref = [t \in Threads |-> 0]
    /\ pc = [t \in Threads |-> "idle"]
    /\ seen = [t \in Threads |-> << >>]
    /\ opres = [t \in Threads |-> ""]
    /\ calls = [t \in Threads |-> 0]
    /\ recorded = [t \in Threads |-> << >>]
    /\ outcome = [t \in Threads |-> NoOutcome]
    /\ completed = << >>
    /\ NoRequests

NextOrchestrator ==
    \/ \E q \in Requests, text \in IdeaTexts : Receive(q, text)
    \/ \E q \in Requests : ViabilityStarts(q)
    \/ \E q \in Requests : ViabilityReturns(q)
    \/ \E q \in Requests : ViabilityRaises(q)
    \/ \E q \in Requests : RiskStarts(q)
    \/ \E q \in Requests : RiskReturns(q)
    \/ \E q \in Requests : RiskRaises(q)
    \/ \E q \in Requests : TimingStarts(q)
    \/ \E q \in Requests : TimingReturns(q)
    \/ \E q \in Requests, e \in TimingErrors : TimingRaises(q, e)
    \/ \E q \in Requests : Respond(q)

SpecOrchestrator == InitOrchestrator /\ [][NextOrchestrator]_vars

\* ------------------------------- one breaker, a dependency that recovers
\* The callers call through the wrapper, whose can_execute() reads the state.
\* The clock beyond MaxTime: it runs on for as long as the breaker is Open and
\* waiting for its recovery timeout
TimePasses ==
    /\ \/ now < MaxTime
       \/ \E i \in 1..Len(breakers) :
             breakers[i]._state = OPEN /\ ~_should_attempt_reset(breakers[i], now)
    /\ now' = now + 1
    /\ UNCHANGED << breakers, hist, returned, thread_vars >>
    /\ UNCHANGED << completed, orch_vars >>

\* line 103: func raises e, while the dependency is still down: it is back up
\* from time MaxTime on
OperationRaisesWhileDown(t, e) ==
    /\ now < MaxTime
    /\ OperationRaises(t, e)

NextRecovery ==
    \/ \E t \in Threads : Invoke(t)
    \/ \E t \in Threads : CanExecute(t)
    \/ \E t \in Threads : StartOperation(t)
    \/ \E t \in Threads, r \in Results : OperationReturns(t, r)
    \/ \E t \in Threads, e \in Errors : OperationRaisesWhileDown(t, e)
    \/ \E t \in Threads : SuccessLock(t)
    \/ \E t \in Threads : SuccessReturn(t)
    \/ \E t \in Threads : FailureLock(t)
    \/ \E t \in Threads : FailureReraise(t)
    \/ TimePasses

\* Thread t asks for the lock: to start a call, or to record its outcome
TakesLock(t) == Invoke(t) \/ SuccessLock(t) \/ FailureLock(t)
\* Thread t goes on where no lock is to be waited for; the operation, once
\* entered, returns
GoesOn(t) ==
    \/ CanExecute(t)
    \/ StartOperation(t)
    \/ \E r \in Results : OperationReturns(t, r)
    \/ SuccessReturn(t)
    \/ FailureReraise(t)

\* Time goes on; every caller is scheduled, keeps calling, and gets the lock
\* when it asks for it again and again.
FairRecovery ==
    /\ WF_vars(TimePasses)
    /\ \A t \in Threads : SF_vars(TakesLock(t)) /\ WF_vars(GoesOn(t))

SpecRecovery == Init /\ [][NextRecovery]_vars /\ FairRecovery

\* ----------------------------------------------------- steps, for the claims
\* The breaker thread t works on, before and after a step
Old(t) == breakers[ref[t]]
New(t) == breakers'[ref[t]]

\* This step is thread t applying record_failure() / record_success()
FailureApplied(t) == pc[t] = "rf_body" /\ pc'[t] # "rf_body"
SuccessApplied(t) == pc[t] = "rs_body" /\ pc'[t] # "rs_body"
\* This step is thread t evaluating self.state, inside can_execute() or directly
StateQueried(t) == pc[t] \in {"ce_body", "st_body"} /\ pc'[t] # pc[t]
\* This step is the can_execute() of thread t's wrapper call
AdmissionChecked(t) == pc[t] = "ce_body" /\ pc'[t] # "ce_body"
\* This step is thread t entering the wrapped operation
OperationStarted(t) == pc[t] = "admitted" /\ pc'[t] = "running"

\* The fields a method may change are the same in two breaker values
SameFields(a, b) ==
    /\ a._state = b._state
    /\ a._failure_count = b._failure_count
    /\ a._last_failure_time = b._last_failure_time
    /\ a._half_open_calls = b._half_open_calls

\* Time elapsed at `now` since the instant <<t0>>
Since(t0) == now - t0[1]

\* --------------------------------------------------------------------- C1
\* C1: a breaker starts Closed with failure_count 0, and every record_failure()
\* applied while Closed with failure_count k-1 makes failure_count k, the k-th
\* consecutive failure: the state stays Closed while k < failure_threshold and
\* is Open when k reaches failure_threshold.
C1_ThresholdOpens ==
    /\ \A i \in 1..Len(breakers) :
          breakers[i]._state = CLOSED /\ breakers[i]._failure_count = 0
    /\ [][\A t \in Threads :
            (FailureApplied(t) /\ Old(t)._state = CLOSED) =>
                LET k == Old(t)._failure_count + 1
                IN  /\ New(t)._failure_count = k
                    /\ hist'[ref[t]].streak = k
                    /\ k < Old(t).failure_threshold => New(t)._state = CLOSED
                    /\ k >= Old(t).failure_threshold => New(t)._state = OPEN]_vars

\* T > 1 consecutive failures have opened a breaker that was never Open before
C1_Witness ==
    \E i \in 1..Len(breakers) :
        /\ breakers[i].failure_threshold > 1
        /\ breakers[i]._state = OPEN
        /\ breakers[i]._failure_count = breakers[i].failure_threshold
        /\ hist[i].streak = breakers[i].failure_threshold
        /\ breakers[i]._half_open_calls = 0

\* --------------------------------------------------------------------- C2
\* C2: record_success() applied while Closed leaves the state Closed and sets
\* failure_count to 0; a Closed breaker becomes Open only by a record_failure()
\* that is the failure_threshold-th with no record_success() applied in
\* between, and while Closed failure_count is the number of failures recorded
\* since the last success.
C2_ConsecutiveFailures ==
    /\ [](\A i \in 1..Len(breakers) :
            breakers[i]._state = CLOSED =>
                /\ hist[i].streak = breakers[i]._failure_count
                /\ hist[i].streak < breakers[i].failure_threshold)
    /\ [][\A t \in Threads :
            /\ (SuccessApplied(t) /\ Old(t)._state = CLOSED) =>
                  (New(t)._state = CLOSED /\ New(t)._failure_count = 0)
            /\ (pc'[t] # pc[t] /\ ref[t] # 0
                  /\ Old(t)._state = CLOSED /\ New(t)._state = OPEN) =>
                  (FailureApplied(t) /\ hist'[ref[t]].streak = Old(t).failure_threshold)]_vars

\* A failure was recorded on a breaker that never opened, and a later success
\* in Closed has reset its count
C2_Witness ==
    \E i \in 1..Len(breakers) :
        /\ breakers[i]._state = CLOSED
        /\ breakers[i]._last_failure_time # None
        /\ hist[i].opened_at = None
        /\ breakers[i]._failure_count = 0
        /\ \E t \in Threads : pc[t] = "idle" /\ recorded[t] = << "record_success" >>

\* --------------------------------------------------------------------- C3
\* C3: a wrapper call whose can_execute() finds the breaker Open with the
\* recovery timeout not elapsed ends at once by raising CircuitOpenError: the
\* wrapped operation is not invoked, no record_success or record_failure is
\* applied, and failure_count and last_failure_time stay as they were.
C3_FastFail ==
    /\ [](\A t \in Threads :
            outcome[t] = Raised(CircuitOpenError) =>
                (calls[t] = 0 /\ recorded[t] = << >>))
    /\ [][\A t \in Threads :
            (/\ AdmissionChecked(t)
             /\ Old(t)._state = OPEN
             /\ Since(Old(t)._last_failure_time) < Old(t).recovery_timeout) =>
                /\ pc'[t] = "idle"
                /\ outcome'[t] = Raised(CircuitOpenError)
                /\ calls'[t] = calls[t]
                /\ recorded'[t] = << >>
                /\ New(t)._failure_count = Old(t)._failure_count
                /\ New(t)._last_failure_time = Old(t)._last_failure_time
                /\ hist'[ref[t]] = hist[ref[t]]]_vars

\* A call has been rejected
C3_Witness ==
    \E t \in Threads :
        /\ pc[t] = "idle"
        /\ outcome[t] = Raised(CircuitOpenError)
        /\ calls[t] = 0
        /\ breakers[ref[t]]._state = OPEN

\* --------------------------------------------------------------------- C4
\* C4 as claimed: whenever a caller enters the wrapped operation, the breaker
\* it goes through is not Open.
C4_NeverStartedWhileOpen ==
    [][\A t \in Threads : OperationStarted(t) => Old(t)._state # OPEN]_vars

\* C4 as amended: a caller enters the wrapped operation only after its own
\* can_execute() returned true, the breaker being not Open when that check
\* released the lock; while the caller stands between the check and the
\* operation, only another caller's record_failure() makes the breaker Open.
C4_StartedOnlyAfterAdmission ==
    [][\A t \in Threads :
        /\ OperationStarted(t) => (Len(seen[t]) = 1 /\ seen[t][1] # OPEN)
        /\ (AdmissionChecked(t) /\ pc'[t] = "admitted") =>
              (New(t)._state # OPEN /\ seen'[t] = << New(t)._state >>)
        /\ (pc[t] = "admitted" /\ Old(t)._state # OPEN /\ New(t)._state = OPEN) =>
              \E u \in Threads \ {t} : ref[u] = ref[t] /\ FailureApplied(u)]_vars

\* A caller admitted while Closed is running the operation, which it entered
\* with the breaker Open
C4_Witness ==
    \E t \in Threads : pc[t] = "running" /\ calls[t] = 1 /\ seen[t] = << CLOSED, OPEN >>

\* --------------------------------------------------------------------- C5
\* C5 as claimed: a state query (direct, or inside can_execute()) made when the
\* breaker is Open and recovery_timeout has elapsed since it became Open
\* leaves it HalfOpen with the half-open counter 0, and can_execute() admits
\* the call.
C5_HalfOpenAfterTimeoutSinceOpened ==
    [][\A t \in Threads :
        (/\ StateQueried(t)
         /\ Old(t)._state = OPEN
         /\ hist[ref[t]].opened_at # None
         /\ Since(hist[ref[t]].opened_at) >= Old(t).recovery_timeout) =>
            /\ New(t)._state = HALF_OPEN
            /\ New(t)._half_open_calls = 0
            /\ pc[t] = "ce_body" => pc'[t] = "admitted"]_vars

\* C5 as amended: a state query (direct, or inside can_execute()) made when the
\* breaker is Open and recovery_timeout has elapsed since the most recent
\* recorded failure (last_failure_time) leaves it HalfOpen with the half-open
\* counter 0 and nothing else changed; the direct query returns HalfOpen, and
\* can_execute() returns true, so the call is admitted.
C5_HalfOpenAfterTimeoutSinceLastFailure ==
    [][\A t \in Threads :
        (/\ StateQueried(t)
         /\ Old(t)._state = OPEN
         /\ Old(t)._last_failure_time # None
         /\ Since(Old(t)._last_failure_time) >= Old(t).recovery_timeout) =>
            /\ New(t)._state = HALF_OPEN
            /\ New(t)._half_open_calls = 0
            /\ New(t)._failure_count = Old(t)._failure_count
            /\ New(t)._last_failure_time = Old(t)._last_failure_time
            /\ pc[t] = "ce_body" => (pc'[t] = "admitted" /\ seen'[t] = << HALF_OPEN >>)
            /\ pc[t] = "st_body" => outcome'[t] = Returned(HALF_OPEN)]_vars

\* A call was admitted as a probe by the can_execute() that half-opened the
\* breaker, a positive recovery timeout after its last recorded failure
C5_Witness ==
    \E t \in Threads :
        /\ pc[t] = "admitted"
        /\ seen[t] = << HALF_OPEN >>
        /\ breakers[ref[t]]._state = HALF_OPEN
        /\ breakers[ref[t]]._half_open_calls = 0
        /\ breakers[ref[t]].recovery_timeout > 0
        /\ Since(breakers[ref[t]]._last_failure_time) >= breakers[ref[t]].recovery_timeout

\* --------------------------------------------------------------------- C6
\* C6: a state query made while the breaker is Open and less than
\* recovery_timeout has elapsed, since it became Open or since its last
\* recorded failure, changes no field: the state stays Open, the direct query
\* returns Open, and can_execute() returns false (the call is rejected).
C6_OpenUntilTimeout ==
    [][\A t \in Threads :
        (/\ StateQueried(t)
         /\ Old(t)._state = OPEN
         /\ \/ Since(hist[ref[t]].opened_at) < Old(t).recovery_timeout
            \/ Since(Old(t)._last_failure_time) < Old(t).recovery_timeout) =>
            /\ New(t)._state = OPEN
            /\ SameFields(New(t), Old(t))
            /\ pc[t] = "ce_body" =>
                  (pc'[t] = "idle" /\ outcome'[t] = Raised(CircuitOpenError))
            /\ pc[t] = "st_body" => outcome'[t] = Returned(OPEN)]_vars

\* After time has passed since the breaker opened, but less than its recovery
\* timeout, a call was rejected
C6_Witness ==
    \E t \in Threads :
        /\ pc[t] = "idle"
        /\ outcome[t] = Raised(CircuitOpenError)
        /\ breakers[ref[t]]._state = OPEN
        /\ Since(hist[ref[t]].opened_at) > 0
        /\ Since(hist[ref[t]].opened_at) < breakers[ref[t]].recovery_timeout

\* --------------------------------------------------------------------- C7
\* C7: the breaker enters HalfOpen with the half-open counter 0; while HalfOpen
\* the counter stays below half_open_max_calls; a record_success() applied in
\* HalfOpen with counter h leaves the state HalfOpen with counter h+1 (and
\* failure_count untouched) when h+1 < half_open_max_calls, and otherwise, the
\* half_open_max_calls-th success, makes the state Closed with failure_count 0.
C7_HalfOpenSuccesses ==
    /\ [](\A i \in 1..Len(breakers) :
            breakers[i]._state = HALF_OPEN =>
                breakers[i]._half_open_calls < breakers[i].half_open_max_calls)
    /\ [][\A t \in Threads :
            /\ (pc'[t] # pc[t] /\ ref[t] # 0
                  /\ Old(t)._state # HALF_OPEN /\ New(t)._state = HALF_OPEN) =>
                  New(t)._half_open_calls = 0
            /\ (SuccessApplied(t) /\ Old(t)._state = HALF_OPEN) =>
                  LET h == Old(t)._half_open_calls + 1
                  IN  IF h < Old(t).half_open_max_calls
                      THEN /\ New(t)._state = HALF_OPEN
                           /\ New(t)._half_open_calls = h
                           /\ New(t)._failure_count = Old(t)._failure_count
                      ELSE /\ New(t)._state = CLOSED
                           /\ New(t)._failure_count = 0]_vars

\* A breaker that needs more than one success has been closed from HalfOpen
C7_Witness ==
    \E i \in 1..Len(breakers) :
        /\ breakers[i].half_open_max_calls > 1
        /\ breakers[i]._state = CLOSED
        /\ breakers[i]._half_open_calls = breakers[i].half_open_max_calls
        /\ breakers[i]._failure_count = 0
        /\ hist[i].opened_at # None
        /\ \E t \in Threads : pc[t] = "idle" /\ recorded[t] = << "record_success" >>

\* --------------------------------------------------------------------- C8
\* C8: a record_failure() applied while HalfOpen, whatever the half-open
\* counter, makes the state Open and sets last_failure_time to the current
\* time, so every state query made less than recovery_timeout later finds the
\* breaker still Open.
C8_HalfOpenFailureReopens ==
    [][\A t \in Threads :
        (FailureApplied(t) /\ Old(t)._state = HALF_OPEN) =>
            /\ New(t)._state = OPEN
            /\ New(t)._last_failure_time = << now >>
            /\ New(t)._half_open_calls = Old(t)._half_open_calls
            /\ \A later \in now..MaxTime :
                  later - now < New(t).recovery_timeout =>
                      state(New(t), later)._state = OPEN]_vars

\* A probe failed after an earlier probe of the same HalfOpen period succeeded,
\* on a breaker that had opened at an earlier time and has a positive timeout
C8_Witness ==
    \E i \in 1..Len(breakers) :
        /\ breakers[i]._state = OPEN
        /\ breakers[i]._half_open_calls >= 1
        /\ breakers[i]._half_open_calls < breakers[i].half_open_max_calls
        /\ breakers[i].recovery_timeout > 0
        /\ breakers[i]._last_failure_time = << now >>
        /\ now > 0
        /\ \E t \in Threads : pc[t] = "idle" /\ recorded[t] = << "record_failure" >>

\* --------------------------------------------------------------------- C9
\* C9: a call admitted by can_execute() next enters the wrapped operation,
\* once; when the operation returns r the call applies record_success() once,
\* applies no record_failure(), and returns r; when it raises e the call
\* applies record_failure() once, applies no record_success(), and raises e.
C9_AdmittedCallRecordsOnce ==
    /\ [](\A t \in Threads :
            /\ pc[t] \in {"running", "rs_lock", "rs_body", "rf_lock", "rf_body"} =>
                  (calls[t] = 1 /\ recorded[t] = << >>)
            /\ (pc[t] = "idle" /\ calls[t] # 0) =>
                  /\ calls[t] = 1
                  /\ \/ /\ outcome[t].kind = "return"
                        /\ outcome[t].val \in Results
                        /\ recorded[t] = << "record_success" >>
                     \/ /\ outcome[t].kind = "raise"
                        /\ outcome[t].val \in Errors
                        /\ recorded[t] = << "record_failure" >>)
    /\ [][\A t \in Threads :
            /\ (pc[t] = "admitted" /\ pc'[t] # "admitted") => OperationStarted(t)
            /\ (pc[t] = "running" /\ pc'[t] # "running") =>
                  \/ pc'[t] = "rs_lock" /\ opres'[t] \in Results
                  \/ pc'[t] = "rf_lock" /\ opres'[t] \in Errors
            /\ (pc[t] = "rs_lock" /\ pc'[t] # "rs_lock") =>
                  (pc'[t] = "rs_body" /\ opres'[t] = opres[t])
            /\ (pc[t] = "rf_lock" /\ pc'[t] # "rf_lock") =>
                  (pc'[t] = "rf_body" /\ opres'[t] = opres[t])
            /\ SuccessApplied(t) =>
                  /\ outcome'[t] = Returned(opres[t])
                  /\ New(t) = [record_success(Old(t)) EXCEPT !._lock = Unlocked]
            /\ FailureApplied(t) =>
                  /\ outcome'[t] = Raised(opres[t])
                  /\ New(t) = [record_failure(Old(t), now) EXCEPT !._lock = Unlocked]]_vars

\* One caller's call has returned the operation's result, another's has raised
\* the operation's exception
C9_Witness ==
    \E t, u \in Threads :
        /\ pc[t] = "idle" /\ outcome[t] = Returned("r2")
        /\ recorded[t] = << "record_success" >>
        /\ pc[u] = "idle" /\ outcome[u] = Raised("e2")
        /\ hist[ref[t]].opened_at # None

\* -------------------------------------------------------------------- C10
\* C10: every lookup of a name returns the same breaker, so whatever has been
\* recorded through the breaker of one lookup shows in the breaker of every
\* other lookup of that name: the breakers get_circuit has returned for one
\* name never differ in state, failure_count, half-open counter or
\* last_failure_time.
C10_OneBreakerPerName ==
    \A n \in LookupNames :
        \A i, j \in returned[n] : SameFields(breakers[i], breakers[j])

\* ------------------------------------------------ the orchestrator's claims
\* The answer client `dep` gave request q, NoOutcome while it has given none
Answer(q, dep) ==
    IF \E k \in 1..Len(log[q]) : log[q][k].dep = dep
    THEN log[q][CHOOSE k \in 1..Len(log[q]) : log[q][k].dep = dep].out
    ELSE NoOutcome
\* Client `dep` failed / succeeded for request q
Failed(q, dep) == Answer(q, dep).kind = "raise"
Succeeded(q, dep) == Answer(q, dep).kind = "return"
\* analyze_idea has answered request q
Answered(q) == opc[q] = "idle" /\ reply[q].kind # "none"

\* C11: when the Viability call (the critical dependency) fails, analyze_idea
\* ends with HTTP 500 whose detail names Viability, returns no response body,
\* and does so whatever the idea text would make the Risk call do: no other
\* client is called.
C11_CriticalFailureIsFatal ==
    \A q \in Requests :
        Failed(q, "viability") =>
            /\ Answered(q)
            /\ reply[q].kind = "raise"
            /\ reply[q].val.type = "HTTPException"
            /\ status_code(reply[q]) = 500
            /\ reply[q].val.detail = "Critical dependency 'Viability' failed."
            /\ Len(log[q]) = 1

\* Two requests whose Viability call failed, one with a Risk call that would
\* have succeeded and one with a Risk call that would have failed
C11_Witness ==
    \E q, r \in Requests :
        /\ Failed(q, "viability") /\ Failed(r, "viability")
        /\ RiskClient_scan(idea_text[q]).kind = "return"
        /\ RiskClient_scan(idea_text[r]).kind = "raise"
        /\ status_code(reply[q]) = 500 /\ status_code(reply[r]) = 500

\* The dependencies analyze_idea treats as non-critical: Risk, and Timing,
\* which the source leaves untagged
NonCritical == {"risk", "timing"}
\* The slot of a response that carries the result of client `dep`
Slot(response, dep) ==
    IF dep = "viability" THEN response.viability
    ELSE IF dep = "risk" THEN response.risk
    ELSE response.timing
\* Two Python values are equal
SameValue(a, b) == a.type = b.type /\ a.val = b.val
\* The response to request q carries the value client `dep` returned
CarriesResult(q, dep) == SameValue(Slot(reply[q].val, dep), Answer(q, dep).val)

C13_AllSucceedCarriesResults ==
    \A q \in Requests :
        (Answered(q) /\ \A dep \in {"viability"} \cup NonCritical : Succeeded(q, dep)) =>
            /\ reply[q].kind = "return"
            /\ status_code(reply[q]) = 200
            /\ reply[q].val.type = "AnalysisResponse"
            /\ \A dep \in {"viability"} \cup NonCritical :
                  /\ CarriesResult(q, dep)
                  /\ Slot(reply[q].val, dep).type = "dict"

\* A request answered after all three calls succeeded
C13_Witness ==
    \E q \in Requests :
        /\ Answered(q) /\ Len(log[q]) = 3
        /\ \A k \in 1..3 : log[q][k].out.kind = "return"
        /\ reply[q].val.risk.val.level = "low"

\* This step is a client call of request q ending with an exception
CallFailed(q) ==
    /\ opc[q] \in {"in_viability", "in_risk", "in_timing"}
    /\ opc'[q] # opc[q]
    /\ log'[q][Len(log'[q])].out.kind = "raise"

\* C14: analyze_idea makes every dependency call through a breaker's wrapper,
\* so a call that ends is recorded on the dependency's breaker; for a call that
\* fails, record_failure() adds one to some breaker's _failure_count in the
\* step in which the failure is handled.
C14_FailedCallIsRecordedOnABreaker ==
    [][\A q \in Requests :
          CallFailed(q) =>
              \E i \in 1..Len(breakers) :
                  breakers'[i]._failure_count = breakers[i]._failure_count + 1]_vars

\* -------------------------------------------------------------------- C15
\* C15: reading the state (directly or inside can_execute()) is idempotent.
\* A read of a Closed or HalfOpen breaker changes no field; and after any
\* read, a second read at the same instant with nothing recorded in between
\* would change no field and give the same state and the same can_execute()
\* answer as the first.
C15_StateQueryIdempotent ==
    [][\A t \in Threads :
          StateQueried(t) =>
              /\ Old(t)._state \in {CLOSED, HALF_OPEN} => SameFields(New(t), Old(t))
              /\ SameFields(state(New(t), now), New(t))
              /\ can_execute(state(New(t), now)._state) = can_execute(New(t)._state)]_vars

\* Both callers have read the state of a HalfOpen breaker that has counted a
\* success, one after the other, and the count is still there
C15_Witness ==
    \E t, u \in Threads :
        /\ t # u
        /\ pc[t] = "idle" /\ outcome[t] = Returned(HALF_OPEN)
        /\ pc[u] = "idle" /\ outcome[u] = Returned(HALF_OPEN)
        /\ breakers[1]._state = HALF_OPEN
        /\ breakers[1]._half_open_calls = 1

\* -------------------------------------------------------------------- C16
\* Thread t is between its admission and the recording of its outcome: about
\* to enter the wrapped operation, inside it, or just out of it
InFlight(t) == pc[t] \in {"admitted", "running", "rs_lock", "rf_lock"}

\* Thread u can take its next step: start a call or a state read, or go on
\* with the method it is in
CanProceed(u) ==
    /\ pc[u] = "idle" => (ENABLED Invoke(u)) /\ (ENABLED StateLock(u))
    /\ pc[u] = "ce_body" => ENABLED CanExecute(u)
    /\ pc[u] = "st_body" => ENABLED StateReturn(u)
    /\ pc[u] = "rs_lock" => ENABLED SuccessLock(u)
    /\ pc[u] = "rs_body" => ENABLED SuccessReturn(u)
    /\ pc[u] = "rf_lock" => ENABLED FailureLock(u)
    /\ pc[u] = "rf_body" => ENABLED FailureReraise(u)

\* C16: a caller does not hold the breaker's lock while its wrapped operation
\* runs; and while one caller's operation is in flight, however long, every
\* other caller can go through can_execute(), record_success() and
\* record_failure(): the lock it needs is free, or it holds it itself.
C16_LockFreeDuringOperation ==
    \A t \in Threads :
        InFlight(t) =>
            /\ breakers[ref[t]]._lock # t
            /\ \A u \in Threads \ {t} :
                  /\ breakers[ref[t]]._lock \in {Unlocked, u}
                  /\ CanProceed(u)

\* While one caller is inside its operation, the other has been through a
\* whole call, can_execute() and record_failure() included
C16_Witness ==
    \E t, u \in Threads :
        /\ pc[t] = "running"
        /\ seen[t][1] = CLOSED /\ breakers[ref[t]]._state = OPEN
        /\ pc[u] = "idle" /\ recorded[u] = << "record_failure" >>

\* -------------------------------------------------------------------- C17
\* Thread t is inside a `with self._lock` block
InBody(t) == pc[t] \in {"ce_body", "st_body", "rs_body", "rf_body"}

\* C17: state reads, record_success() and record_failure() on one breaker are
\* serialized by its lock: at most one thread is inside such a method, and it
\* owns the lock.  No update is lost: each record_failure() adds exactly one
\* to _failure_count, and when the n failures recorded since the last success
\* are all the count holds (they began on a Closed breaker with count 0), the
\* breaker is Open after the n-th exactly when n >= failure_threshold.
C17_SerializedByLock ==
    /\ [](\A t \in Threads :
            InBody(t) =>
                /\ breakers[ref[t]]._lock = t
                /\ \A u \in Threads \ {t} : ref[u] = ref[t] => ~InBody(u))
    /\ [][\A t \in Threads :
            FailureApplied(t) =>
                /\ New(t)._failure_count = Old(t)._failure_count + 1
                /\ hist'[ref[t]].streak = hist[ref[t]].streak + 1
                /\ hist'[ref[t]].streak = New(t)._failure_count =>
                      (New(t)._state = OPEN <=>
                          New(t)._failure_count >= New(t).failure_threshold)]_vars

\* Two callers' operations failed at the same time on a Closed breaker with
\* count 0 and threshold 2: one has recorded its failure, the other is inside
\* record_failure(), and the count is 1
C17_Witness ==
    \E t, u \in Threads :
        /\ pc[t] = "idle" /\ recorded[t] = << "record_failure" >>
        /\ pc[u] = "rf_body" /\ breakers[1]._lock = u
        /\ breakers[1]._state = CLOSED
        /\ breakers[1]._failure_count = 1 /\ hist[1].streak = 1
        /\ breakers[1].failure_threshold = 2

\* -------------------------------------------------------------------- C18
\* The threads whose operation on breaker i has ended and whose outcome is
\* not yet recorded, in the order the operations ended
CompletedOn(i) == SelectSeq(completed, LAMBDA u : ref[u] = i)

\* C18 as stated, its first half: outcomes are applied to a breaker in the
\* order their operations complete, so the outcome being recorded is that of
\* the operation that ended first among those not yet recorded.
C18_AppliedInCompletionOrder ==
    [][\A t \in Threads :
          (SuccessApplied(t) \/ FailureApplied(t)) =>
              Head(CompletedOn(ref[t])) = t]_vars

\* C18: an outcome is applied after its own operation has ended, one at a time
\* in the order the callers' record_success()/record_failure() get the lock,
\* and against the breaker's state at that moment, not the state at
\* admission: the success of a call admitted while Closed, recorded when the
\* breaker is HalfOpen, adds one to _half_open_calls and closes the breaker
\* if that reaches half_open_max_calls; the failure of a call admitted while
\* Closed, recorded when the breaker is HalfOpen, re-opens it.
C18_AppliedAgainstStateWhenRecorded ==
    [][\A t \in Threads :
          /\ (SuccessApplied(t) \/ FailureApplied(t)) =>
                /\ \E k \in 1..Len(completed) : completed[k] = t
                /\ Old(t)._lock = t
          /\ (SuccessApplied(t) /\ seen[t][1] = CLOSED /\ Old(t)._state = HALF_OPEN) =>
                /\ New(t)._half_open_calls = Old(t)._half_open_calls + 1
                /\ IF New(t)._half_open_calls >= New(t).half_open_max_calls
                   THEN New(t)._state = CLOSED /\ New(t)._failure_count = 0
                   ELSE New(t)._state = HALF_OPEN
          /\ (FailureApplied(t) /\ seen[t][1] = CLOSED /\ Old(t)._state = HALF_OPEN) =>
                New(t)._state = OPEN]_vars

\* A call admitted while the breaker was Closed is recording its success on
\* the breaker, since opened and now HalfOpen, as the last success the breaker
\* needs to close
C18_Witness ==
    \E t \in Threads :
        /\ pc[t] = "rs_body" /\ seen[t][1] = CLOSED
        /\ breakers[ref[t]]._state = HALF_OPEN
        /\ breakers[ref[t]]._half_open_calls + 1 = breakers[ref[t]].half_open_max_calls
        /\ hist[ref[t]].opened_at # None

\* -------------------------------------------------------------------- C19
\* C19: HalfOpen trial calls are not capped.  Whenever a caller's
\* can_execute() finds the breaker HalfOpen (or turns it HalfOpen), the caller
\* is admitted, whatever _half_open_calls is and however many admitted calls
\* are still in flight.
C19_HalfOpenAdmitsEveryCaller ==
    [][\A t \in Threads :
          (AdmissionChecked(t) /\ New(t)._state = HALF_OPEN) =>
              pc'[t] = "admitted"]_vars

\* With half_open_max_calls = 1, two callers admitted in the same HalfOpen
\* period are inside the operation at once
C19_Witness ==
    /\ breakers[1].half_open_max_calls = 1
    /\ breakers[1]._state = HALF_OPEN
    /\ \A t \in Threads : pc[t] = "running" /\ seen[t][1] = HALF_OPEN

\* -------------------------------------------------------------------- C20
\* This step belongs to thread t's call through its breaker
InvocationStep(t) == pc'[t] # pc[t]

\* C20: one call through a breaker enters the wrapped operation at most once,
\* and no step of it changes a field of any breaker but its own: every other
\* breaker object is the same after the step as before.
C20_OneOperationOneBreaker ==
    /\ [](\A t \in Threads : calls[t] <= 1)
    /\ [][\A t \in Threads :
            InvocationStep(t) =>
                /\ Len(breakers') = Len(breakers)
                /\ \A i \in 1..Len(breakers) :
                      i # ref[t] => breakers'[i] = breakers[i]]_vars

\* Two callers on two different breakers: one's call has failed and is
\* counted on its breaker, the other's has succeeded and its breaker's count
\* is still 0
C20_Witness ==
    \E t, u \in Threads :
        /\ ref[t] # 0 /\ ref[u] # 0 /\ ref[t] # ref[u]
        /\ pc[t] = "idle" /\ calls[t] = 1 /\ recorded[t] = << "record_failure" >>
        /\ pc[u] = "idle" /\ calls[u] = 1 /\ recorded[u] = << "record_success" >>
        /\ breakers[ref[t]]._failure_count = 1
        /\ breakers[ref[u]]._failure_count = 0

\* -------------------------------------------------------------------- C21
\* No failure is still to be recorded on the breaker: the dependency is back
\* up and no caller is on its way to record_failure()
OnlySuccessesFromNowOn == now >= MaxTime /\ PendingFailures(1) = 0

\* C21: a breaker starts Closed with _failure_count 0 and has no terminal
\* state.  With time advancing and callers calling, it is Closed again and
\* again, whatever state and counters it has reached; and once only successes
\* are recorded, an Open breaker becomes HalfOpen and a HalfOpen breaker
\* becomes Closed.
C21_NoTerminalState ==
    /\ breakers[1]._state = CLOSED /\ breakers[1]._failure_count = 0
    /\ []<>(breakers[1]._state = CLOSED)
    /\ (OnlySuccessesFromNowOn /\ breakers[1]._state = OPEN)
          ~> (breakers[1]._state = HALF_OPEN)
    /\ (OnlySuccessesFromNowOn /\ breakers[1]._state = HALF_OPEN)
          ~> (breakers[1]._state = CLOSED)

\* The breaker is Closed again with count 0 after having been Open, the last
\* failure recorded on it at the latest moment the dependency was down
C21_Witness ==
    /\ breakers[1]._state = CLOSED /\ breakers[1]._failure_count = 0
    /\ hist[1].opened_at # None
    /\ breakers[1]._last_failure_time # None
    /\ breakers[1].recovery_timeout = MaxTimeout
    /\ now > MaxTime

\* -------------------------------------------------------------------- C22
\* This step takes breaker i from state `from` to state `to`
Edge(i, from, to) == breakers[i]._state = from /\ breakers'[i]._state = to
\* This step is thread t working on breaker i
On(t, i) == ref[t] = i /\ i <= Len(breakers')

\* C22: a breaker's state changes only along four edges, each by its own
\* cause: Closed -> Open by a record_failure() that brings the count to the
\* threshold, Open -> HalfOpen by a state read with the recovery timeout
\* elapsed, HalfOpen -> Closed by a record_success() that brings the half-open
\* counter to half_open_max_calls, HalfOpen -> Open by a record_failure().  A
\* record_success() in Closed or Open leaves the state as it is.
C22_OnlyTheFourEdges ==
    [][/\ \A i \in 1..Len(breakers) :
            breakers'[i]._state # breakers[i]._state =>
                \/ /\ Edge(i, CLOSED, OPEN)
                   /\ \E t \in Threads : On(t, i) /\ FailureApplied(t)
                   /\ breakers'[i]._failure_count >= breakers[i].failure_threshold
                \/ /\ Edge(i, OPEN, HALF_OPEN)
                   /\ \E t \in Threads : On(t, i) /\ StateQueried(t)
                   /\ Since(breakers[i]._last_failure_time) >= breakers[i].recovery_timeout
                \/ /\ Edge(i, HALF_OPEN, CLOSED)
                   /\ \E t \in Threads : On(t, i) /\ SuccessApplied(t)
                   /\ breakers'[i]._half_open_calls >= breakers[i].half_open_max_calls
                \/ /\ Edge(i, HALF_OPEN, OPEN)
                   /\ \E t \in Threads : On(t, i) /\ FailureApplied(t)
       /\ \A t \in Threads :
            (SuccessApplied(t) /\ Old(t)._state \in {CLOSED, OPEN}) =>
                New(t)._state = Old(t)._state]_vars

\* The breaker has gone Closed -> Open -> HalfOpen -> Open -> HalfOpen: it is
\* HalfOpen, it last opened later than its first possible opening, and the
\* count stands above the threshold
C22_Witness ==
    /\ breakers[1]._state = HALF_OPEN
    /\ breakers[1]._failure_count > breakers[1].failure_threshold
    /\ hist[1].opened_at # None /\ hist[1].opened_at[1] > 0
    /\ breakers[1]._half_open_calls = 0

\* -------------------------------------------------------------------- C23
\* C23 as stated: _failure_count goes to 0 exactly when the state becomes
\* Closed: a step into Closed leaves it 0, and no step that does not enter
\* Closed takes it from a positive value to 0.
C23_ResetExactlyOnEnteringClosed ==
    [][\A i \in 1..Len(breakers) :
          LET enters == breakers[i]._state # CLOSED /\ breakers'[i]._state = CLOSED
              resets == breakers[i]._failure_count # 0 /\ breakers'[i]._failure_count = 0
          IN  (enters => breakers'[i]._failure_count = 0) /\ (resets => enters)]_vars

\* C23: every step into Closed leaves _failure_count at 0, and the only steps
\* that take it from a positive value to 0 are record_success() steps: the one
\* that closes a HalfOpen breaker, and any applied while the breaker is Closed,
\* which leaves the state Closed.  Steps that enter Open or HalfOpen, state
\* reads and record_failure() never do.
C23_ResetOnCloseOrSuccessWhileClosed ==
    [][/\ \A i \in 1..Len(breakers) :
            LET enters == breakers[i]._state # CLOSED /\ breakers'[i]._state = CLOSED
                resets == breakers[i]._failure_count # 0 /\ breakers'[i]._failure_count = 0
            IN  /\ enters => breakers'[i]._failure_count = 0
                /\ resets =>
                      /\ \E t \in Threads : On(t, i) /\ SuccessApplied(t)
                      /\ breakers[i]._state \in {CLOSED, HALF_OPEN}
                      /\ breakers'[i]._state = CLOSED
       /\ \A t \in Threads :
            (SuccessApplied(t) /\ Old(t)._state = CLOSED) =>
                New(t)._state = CLOSED /\ New(t)._failure_count = 0]_vars

\* A breaker that never opened has had a failure recorded and then a success:
\* it is Closed with count 0 again without having left Closed
C23_Witness ==
    /\ breakers[1]._state = CLOSED
    /\ hist[1].opened_at = None
    /\ breakers[1]._last_failure_time # None
    /\ breakers[1]._failure_count = 0
    /\ \A t \in Threads : pc[t] = "idle"

\* -------------------------------------------------------------------- C24
\* C24: _half_open_calls goes to 0 exactly when the state becomes HalfOpen.
\* The breaker enters HalfOpen only from Open, with the counter at 0; and no
\* other step lowers the counter: not record_success(), not record_failure(),
\* not the steps HalfOpen -> Closed and HalfOpen -> Open, not a state read in
\* another state.
C24_ProbesResetExactlyOnHalfOpen ==
    [][\A i \in 1..Len(breakers) :
          LET enters == breakers[i]._state # HALF_OPEN /\ breakers'[i]._state = HALF_OPEN
          IN  /\ enters => (breakers[i]._state = OPEN /\ breakers'[i]._half_open_calls = 0)
              /\ breakers'[i]._half_open_calls < breakers[i]._half_open_calls => enters]_vars

\* A state read is about to half-open a breaker whose counter still holds the
\* successes of an earlier HalfOpen period
C24_Witness ==
    \E t \in Threads :
        /\ pc[t] \in {"ce_body", "st_body"}
        /\ breakers[ref[t]]._state = OPEN
        /\ breakers[ref[t]]._half_open_calls >= 1
        /\ _should_attempt_reset(breakers[ref[t]], now)

\* -------------------------------------------------------------------- C25
\* C25: _last_failure_time is written exactly by record_failure().  Every
\* record_failure(), in whatever state it is applied, sets it to the current
\* time; every other step leaves it as it is.
C25_TimeSetExactlyOnFailure ==
    [][/\ \A t \in Threads : FailureApplied(t) => New(t)._last_failure_time = << now >>
       /\ \A i \in 1..Len(breakers) :
            breakers'[i]._last_failure_time # breakers[i]._last_failure_time =>
                \E t \in Threads : On(t, i) /\ FailureApplied(t)]_vars

\* A failure was recorded on a Closed breaker below its threshold, at a time
\* later than 0, and a success has been recorded since
C25_Witness ==
    /\ breakers[1]._state = CLOSED
    /\ breakers[1].failure_threshold = 2
    /\ breakers[1]._last_failure_time # None
    /\ breakers[1]._last_failure_time[1] > 0
    /\ hist[1].opened_at = None
    /\ hist[1].streak = 0
    /\ now > breakers[1]._last_failure_time[1]

\* -------------------------------------------------------------------- C26
\* C26: in every reachable state, a Closed breaker has
\* 0 <= _failure_count < failure_threshold, and an Open or HalfOpen breaker
\* has _failure_count >= failure_threshold.
C26_CountMatchesState ==
    \A i \in 1..Len(breakers) :
        IF breakers[i]._state = CLOSED
        THEN /\ 0 <= breakers[i]._failure_count
             /\ breakers[i]._failure_count < breakers[i].failure_threshold
        ELSE breakers[i]._failure_count >= breakers[i].failure_threshold

\* An Open breaker that has been HalfOpen and counted a success there, its
\* count two above the threshold: failures recorded while Open or HalfOpen
\* went on top of a count that entering HalfOpen did not reset
C26_Witness ==
    /\ breakers[1]._state = OPEN
    /\ breakers[1]._failure_count >= breakers[1].failure_threshold + 2
    /\ breakers[1]._half_open_calls >= 1

\* -------------------------------------------------------------------- C27
\* C27: in every reachable state, a HalfOpen breaker has
\* 0 <= _half_open_calls < half_open_max_calls, and a breaker that is not
\* Closed has _last_failure_time set, so _should_attempt_reset never answers
\* an Open breaker from its `is None` branch.
C27_ProbesBelowLimitAndTimeSet ==
    \A i \in 1..Len(breakers) :
        /\ breakers[i]._state = HALF_OPEN =>
              /\ 0 <= breakers[i]._half_open_calls
              /\ breakers[i]._half_open_calls < breakers[i].half_open_max_calls
        /\ breakers[i]._state # CLOSED => breakers[i]._last_failure_time # None

\* A HalfOpen breaker one success short of closing, with a state read of it in
\* progress
C27_Witness ==
    \E t \in Threads :
        /\ pc[t] = "st_body"
        /\ breakers[ref[t]]._state = HALF_OPEN
        /\ breakers[ref[t]].half_open_max_calls = MaxHalfOpen
        /\ breakers[ref[t]]._half_open_calls = MaxHalfOpen - 1

\* -------------------------------------------------------------------- C28
\* C28: a record_failure() applied to an Open breaker keeps it Open, adds one
\* to _failure_count and sets _last_failure_time to now, so the recovery
\* window starts again: no state read made less than recovery_timeout after
\* that failure half-opens the breaker, and a state read that does half-open
\* a breaker comes at least recovery_timeout after its most recent failure.
C28_LateFailureRestartsWindow ==
    [][\A t \in Threads :
          /\ (FailureApplied(t) /\ Old(t)._state = OPEN) =>
                /\ New(t)._state = OPEN
                /\ New(t)._failure_count = Old(t)._failure_count + 1
                /\ New(t)._last_failure_time = << now >>
                /\ New(t)._half_open_calls = Old(t)._half_open_calls
                /\ \A later \in now..(MaxTime + MaxTimeout) :
                      (state(New(t), later)._state = HALF_OPEN) <=>
                          (later - now >= New(t).recovery_timeout)
          /\ (StateQueried(t) /\ Old(t)._state = OPEN /\ New(t)._state = HALF_OPEN) =>
                now - Old(t)._last_failure_time[1] >= Old(t).recovery_timeout]_vars

\* A breaker with a positive timeout is HalfOpen after a failure was recorded
\* on it while it was Open: its last failure is later than its opening
C28_Witness ==
    /\ breakers[1]._state = HALF_OPEN
    /\ breakers[1].recovery_timeout > 0
    /\ hist[1].opened_at # None
    /\ breakers[1]._last_failure_time[1] > hist[1].opened_at[1]

\* -------------------------------------------------------------------- C29
\* C29: a record_success() applied to an Open breaker changes nothing: state,
\* _failure_count, _half_open_calls and _last_failure_time are as they were,
\* and the breaker is still Open.
C29_LateSuccessIsNoOp ==
    [][\A t \in Threads :
          (SuccessApplied(t) /\ Old(t)._state = OPEN) =>
              /\ New(t)._state = OPEN
              /\ SameFields(New(t), Old(t))]_vars

\* The last outcome recorded on an Open breaker is a success, of a call
\* admitted before the breaker opened
C29_Witness ==
    /\ breakers[1]._state = OPEN
    /\ hist[1].streak = 0
    /\ \E t \in Threads :
          pc[t] = "idle" /\ calls[t] = 1 /\ recorded[t] = << "record_success" >>

\* -------------------------------------------------------------------- C30
\* The order in which analyze_idea calls its clients
CallOrder == << "viability", "risk", "timing" >>

\* C30: analyze_idea calls Viability, Risk, Timing one after the other in that
\* order.  At most one call of a request is in progress, the latest; Risk is
\* called only after Viability has returned, Timing only after Risk has
\* returned or raised; when Viability raises nothing else is called and the
\* request is answered with the error, no Risk or Timing result in it.
C30_StrictlySequential ==
    \A q \in Requests :
        /\ Len(log[q]) <= Len(CallOrder)
        /\ \A k \in 1..Len(log[q]) :
              /\ log[q][k].dep = CallOrder[k]
              /\ k < Len(log[q]) => log[q][k].out.kind # "none"
        /\ Len(log[q]) >= 2 => log[q][1].out.kind = "return"
        /\ (Len(log[q]) >= 1 /\ log[q][1].out.kind = "raise") =>
              /\ Len(log[q]) = 1
              /\ opc[q] = "idle"
              /\ reply[q].kind = "raise"
              /\ risk_result[q] = NoneValue /\ timing_result[q] = NoneValue

\* The Timing call of a request is in progress after its Viability call
\* returned and its Risk call raised, while another request stopped at its
\* failed Viability call
C30_Witness ==
    \E q, r \in Requests :
        /\ Len(log[q]) = 3
        /\ log[q][1].out.kind = "return"
        /\ log[q][2].out.kind = "raise"
        /\ log[q][3].out.kind = "none"
        /\ Len(log[r]) = 1 /\ log[r][1].out.kind = "raise"

====
